---- MODULE Spec2Model ----
(***************************************************************************)
(* State-machine model of the useDebriefings hook                          *)
(* (src/src/hooks/useDebriefings.tsx) and of the relational store it       *)
(* talks to.  Every asynchronous call of the hook is a task: it advances   *)
(* one await at a time, so calls interleave where the code awaits.         *)
(***************************************************************************)
EXTENDS Integers, Sequences, FiniteSets, TLC

\* ------------------------------------------------------------------ bounds
\* Calls of the hook that can be in flight together.
NSlots == 2
\* Calls the component makes in one behaviour, after the mount.
MaxCalls == 2
\* Submissions the comments sheet starts in one behaviour.
MaxSubmits == 3

\* ------------------------------------------------------------- vocabulary
NoUser == "nouser"
NoChannel == "null"
\* the data of an insert that returned none
NoRow ==
  [id |-> 0, title |-> "", creator_id |-> "nouser", channel_id |-> "null",
   is_public |-> FALSE, likes |-> 0, views |-> 0, created_at |-> 0]
Sentinel == "general"
Viewers == {NoUser, "u1"}
Channels == {NoChannel, Sentinel, "c1", "c2"}
Titles == {"T"}
Slots == 1..NSlots

\* Rows of the debriefings table before the hook is mounted.
InitRows ==
  { [id |-> 1, title |-> "A", creator_id |-> "u1", channel_id |-> "c1",
     is_public |-> FALSE, likes |-> 3, views |-> 0, created_at |-> 1],
    [id |-> 2, title |-> "B", creator_id |-> "u2", channel_id |-> NoChannel,
     is_public |-> TRUE, likes |-> 1, views |-> 0, created_at |-> 2],
    [id |-> 3, title |-> "C", creator_id |-> "u2", channel_id |-> "c2",
     is_public |-> FALSE, likes |-> 2, views |-> 0, created_at |-> 3] }
\* Rows of the debriefing_likes table before the hook is mounted.
InitLikes == { <<2, "u1">>, <<3, "u1">> }
NInitRows == Cardinality(InitRows)
\* an id no row and no item has: find(d => d.id === debriefingId) finds nothing
UnknownId == NoRow.id

VARIABLES
  user,        \* useAuth().user: the viewer, or NoUser
  channelId,   \* the hook's channelId argument
  debriefings, \* useState<Debriefing[]>
  loading,     \* useState(true)
  tasks,       \* the calls of the hook in flight, one record per slot
  last,        \* what the step just taken returned to a caller and showed the user, if it was a return
  db,          \* store: rows of table debriefings
  likesTbl,    \* store: rows of table debriefing_likes, <<debriefing_id, user_id>>
  created,     \* store: rows inserted so far (serial id and clock)
  calls,       \* calls the component has made since the mount
  sheet        \* DebriefingCommentsSheet: its state and its addComment calls in flight

vars == <<user, channelId, debriefings, loading, tasks, last, db, likesTbl, created, calls, sheet>>

\* --------------------------------------------------------------- helpers
\* faulty variant: the guard forgets the sentinel 'general'
IsSentinel_NullOnly(c) == c = NoChannel

\* if (!channelId || channelId === 'general')
IsSentinel(c) == c = NoChannel \/ c = Sentinel

\* .order('created_at', { ascending: false }) over a set of rows
RECURSIVE OrderDesc(_)
OrderDesc(S) ==
  IF S = {} THEN <<>>
  ELSE LET r == CHOOSE x \in S : \A y \in S : y.created_at <= x.created_at
       IN <<r>> \o OrderDesc(S \ {r})

\* faulty variant: the query has no channel filter
QueryChannel_All(c) == OrderDesc(db)

\* from('debriefings').select('*').eq('channel_id', c).order(...)
QueryChannel(c) == OrderDesc({r \in db : r.channel_id = c})

\* from('debriefings').select('*').eq('is_public', true).order(...)
QueryPublic == OrderDesc({r \in db : r.is_public})

\* table profiles: username of a user
Username(u) == IF u = "u1" THEN "alice" ELSE "bob"

\* { ...debriefing, creator_username: ..., isLiked: ... }
Item(r, name, liked) ==
  [id |-> r.id, title |-> r.title, creator_id |-> r.creator_id,
   creator_username |-> name, likes |-> r.likes, views |-> r.views,
   isLiked |-> liked, created_at |-> r.created_at,
   channel_id |-> r.channel_id, is_public |-> r.is_public]

\* faulty variant: no fallback name
LoadName_NoFallback(ok, creator) == Username(creator)

\* creator_username: profileData?.username || 'Utilisateur'
LoadName(ok, creator) == IF ok THEN Username(creator) ELSE "Utilisateur"

\* isLiked: !!likeData
LoadLiked(ok, id) == ok /\ <<id, user>> \in likesTbl

\* the like state of an item a likeDebriefing call starts from; NoBase when there is none
NoBase == [liked |-> FALSE, likes |-> -99]

\* a call of the hook: its position (pc), its arguments and its local variables
IdleTask ==
  [op |-> "none", pc |-> "idle", err |-> "none", chan |-> NoChannel, arg |-> UnknownId,
   title |-> "T",
   isPublic |-> FALSE, video |-> FALSE, thumb |-> FALSE,
   wasLiked |-> FALSE, wasLikes |-> 0, base |-> NoBase, sync |-> TRUE,
   rows |-> <<>>, out |-> <<>>, pFail |-> {}, lFail |-> {}, row |-> NoRow]

Free(t) == tasks[t].pc = "idle"
\* a new call takes the lowest slot not in flight
Lowest(t) == Free(t) /\ \A s \in Slots : s < t => ~Free(s)

\* the component makes one more call
Call == calls < MaxCalls /\ calls' = calls + 1

\* the shared state a step starts from
Pre == [list |-> debriefings, loading |-> loading, db |-> db, likes |-> likesTbl]

\* what a step that returns from a call leaves to observe: the call (its arguments and
\* locals), the await it returned from ("idle": before any), its result, its toast and
\* the state the step started from
Returned(rec, at, ret, toast, pre) ==
  [op |-> rec.op, task |-> rec, at |-> at, ret |-> ret, toast |-> toast, pre |-> pre]

NoCall == Returned(IdleTask, "idle", "none", "none",
                   [list |-> <<>>, loading |-> FALSE, db |-> {}, likes |-> {}])

\* the answer of a store call: the call's record, with the error when the store returned one
Answer(rec, ok, call) == [rec EXCEPT !.err = IF ok THEN "none" ELSE call]

\* faulty variant: the error of a store call is not looked at
Thrown_Ignored(rec) == FALSE

\* if (error) throw error; the catch block is entered
Thrown(rec) == rec.err # "none"

\* the call in slot t returns
Return(t, rec, ret, toast) ==
  /\ tasks' = [tasks EXCEPT ![t] = IdleTask]
  /\ last' = Returned(rec, tasks[t].pc, ret, toast, Pre)

\* the call in slot t suspends at its next await
Await(t, rec) ==
  /\ tasks' = [tasks EXCEPT ![t] = rec]
  /\ last' = NoCall

\* ------------------------------------------------------------- the loads
\* fetchDebriefings up to its first await
FetchBegin(t, c) ==
  LET rec == [IdleTask EXCEPT !.op = "fetch", !.chan = c]
  IN IF IsSentinel(c)
     THEN /\ debriefings' = <<>>
          /\ loading' = FALSE
          /\ Return(t, rec, "void", "none")
     ELSE /\ loading' = TRUE
          /\ Await(t, [rec EXCEPT !.pc = "query"])
          /\ UNCHANGED debriefings

\* refetch: fetchDebriefings called by the component
Refetch(t) ==
  /\ Lowest(t)
  /\ FetchBegin(t, channelId)
  /\ Call
  /\ UNCHANGED sheet
  /\ UNCHANGED <<user, channelId, db, likesTbl, created>>

\* useEffect(..., [channelId]) when the component passes a new channelId
SetChannel(t, c) ==
  /\ c # channelId
  /\ channelId' = c
  /\ IF ~IsSentinel(c)
     THEN Lowest(t) /\ FetchBegin(t, c)
     ELSE /\ debriefings' = <<>>
          /\ loading' = FALSE
          /\ last' = Returned([IdleTask EXCEPT !.op = "effect", !.chan = c], "idle", "void", "none", Pre)
          /\ UNCHANGED tasks
  /\ Call
  /\ UNCHANGED sheet
  /\ UNCHANGED <<user, db, likesTbl, created>>

\* fetchPublicDebriefings up to its first await
FetchPublic(t) ==
  /\ Lowest(t)
  /\ loading' = TRUE
  /\ Await(t, [IdleTask EXCEPT !.op = "fetchPublic", !.chan = channelId, !.pc = "query"])
  /\ Call
  /\ UNCHANGED sheet
  /\ UNCHANGED <<user, channelId, debriefings, db, likesTbl, created>>

\* faulty variant: no finally block, a failed query leaves loading as it was
LoadQuery_NoFinally(t) ==
  /\ tasks[t].pc = "query"
  /\ \E ok \in BOOLEAN :
       LET rec == Answer(tasks[t], ok, "query")
           data == IF rec.op = "fetch" THEN QueryChannel(rec.chan) ELSE QueryPublic
       IN IF Thrown(rec)
          THEN Return(t, rec, "void", "error")
          ELSE Await(t, [rec EXCEPT !.pc = "enrich", !.rows = data])
  /\ UNCHANGED <<user, channelId, debriefings, loading, db, likesTbl, created, calls, sheet>>

\* the main query answers: if (error) throw error, else the enrichment starts
LoadQuery(t) ==
  /\ tasks[t].pc = "query"
  /\ \E ok \in BOOLEAN :
       LET rec == Answer(tasks[t], ok, "query")
           data == IF rec.op = "fetch" THEN QueryChannel(rec.chan) ELSE QueryPublic
       IN IF Thrown(rec)
          THEN /\ Return(t, rec, "void", "error")
               /\ loading' = FALSE
          ELSE /\ Await(t, [rec EXCEPT !.pc = "enrich", !.rows = data])
               /\ UNCHANGED loading
  /\ UNCHANGED <<user, channelId, debriefings, db, likesTbl, created, calls, sheet>>

\* the rows of the query whose mapper has not returned yet
Pending(rec) == DOMAIN rec.rows \ DOMAIN rec.out

\* one mapper of the Promise.all: the profile lookup and the like lookup of row i answer
\* (pok, lok: without a store error); pFail and lFail keep which lookups failed
EnrichItem(t, i) ==
  /\ tasks[t].pc = "enrich"
  /\ i \in Pending(tasks[t])
  /\ \E pok \in BOOLEAN, lok \in BOOLEAN :
       LET rec == tasks[t]
           r == rec.rows[i]
           it == Item(r, LoadName(pok, r.creator_id), LoadLiked(lok, r.id))
       IN Await(t, [rec EXCEPT !.out = [j \in DOMAIN rec.out \cup {i} |->
                                          IF j = i THEN it ELSE rec.out[j]],
                               !.pFail = IF pok THEN @ ELSE @ \cup {i},
                               !.lFail = IF lok THEN @ ELSE @ \cup {i}])
  /\ UNCHANGED <<user, channelId, debriefings, loading, db, likesTbl, created, calls, sheet>>

\* the load in slot t returns after replacing the list: the likeDebriefing calls in flight
\* no longer started from the list as it is (history, see InSync)
ReturnLoaded(t) ==
  /\ tasks' = [s \in Slots |-> IF s = t THEN IdleTask
                               ELSE IF tasks[s].op = "like" THEN [tasks[s] EXCEPT !.sync = FALSE]
                               ELSE tasks[s]]
  /\ last' = Returned(tasks[t], tasks[t].pc, "void", "none", Pre)

\* faulty variant: a load whose channel is no longer the hook's is discarded
LoadApply_Guarded(t) ==
  /\ tasks[t].pc = "enrich"
  /\ Pending(tasks[t]) = {}
  /\ debriefings' = IF tasks[t].op = "fetch" /\ tasks[t].chan # channelId
                     THEN debriefings ELSE tasks[t].out
  /\ loading' = FALSE
  /\ ReturnLoaded(t)
  /\ UNCHANGED <<user, channelId, db, likesTbl, created, calls, sheet>>

\* setDebriefings(debriefingsWithUserInfo); finally setLoading(false)
LoadApply(t) ==
  /\ tasks[t].pc = "enrich"
  /\ Pending(tasks[t]) = {}
  /\ debriefings' = tasks[t].out
  /\ loading' = FALSE
  /\ ReturnLoaded(t)
  /\ UNCHANGED <<user, channelId, db, likesTbl, created, calls, sheet>>

\* ------------------------------------------------------- createDebriefing
\* faulty variant: the viewer is not checked
AuthRequired_Off == FALSE

\* if (!user)
AuthRequired == user = NoUser

\* faulty variant: the channel is not checked
InvalidScope_Off(isPublic) == FALSE

\* if (!isPublicBrief && (!channelId || channelId === 'general'))
InvalidScope(isPublic) == ~isPublic /\ IsSentinel(channelId)

\* the first await of createDebriefing: the uploads it has to make, then the insert
FirstStep(video, thumb) == IF video THEN "video" ELSE IF thumb THEN "thumb" ELSE "insert"

\* createDebriefing up to its first await
CreateBegin(t, op, title, isPublic, video, thumb) ==
  LET rec == [IdleTask EXCEPT !.op = op, !.chan = channelId, !.title = title,
                              !.isPublic = isPublic, !.video = video, !.thumb = thumb]
  IN IF AuthRequired THEN Return(t, rec, "false", "auth")
     ELSE IF InvalidScope(isPublic) THEN Return(t, rec, "false", "scope")
     ELSE Await(t, [rec EXCEPT !.pc = FirstStep(video, thumb)])

CreateDebriefing(t, title, isPublic, video, thumb) ==
  /\ Lowest(t)
  /\ CreateBegin(t, "create", title, isPublic, video, thumb)
  /\ Call
  /\ UNCHANGED sheet
  /\ UNCHANGED <<user, channelId, debriefings, loading, db, likesTbl, created>>

\* createDebriefing({ ...debriefingData, isPublic: true })
CreatePublicBrief(t, title, video, thumb) ==
  /\ Lowest(t)
  /\ CreateBegin(t, "createPublic", title, TRUE, video, thumb)
  /\ Call
  /\ UNCHANGED sheet
  /\ UNCHANGED <<user, channelId, debriefings, loading, db, likesTbl, created>>

\* storage.upload of the video, then of the thumbnail: if (uploadError) throw uploadError
Upload(t) ==
  /\ tasks[t].pc \in {"video", "thumb"}
  /\ \E ok \in BOOLEAN :
       LET rec == Answer(tasks[t], ok, tasks[t].pc)
       IN IF Thrown(rec)
          THEN Return(t, rec, "false", "error")
          ELSE Await(t, [rec EXCEPT !.pc = IF rec.pc = "video" THEN FirstStep(FALSE, rec.thumb)
                                           ELSE "insert"])
  /\ UNCHANGED <<user, channelId, debriefings, loading, db, likesTbl, created, calls, sheet>>

\* faulty variant: a public row keeps the hook's channel
InsertRow_KeepChannel(rec) ==
  [id |-> NInitRows + created + 1, title |-> rec.title, creator_id |-> user,
   channel_id |-> rec.chan, is_public |-> rec.isPublic, likes |-> 0, views |-> 0,
   created_at |-> NInitRows + created + 1]

\* debriefingInsert, with the id and created_at the store gives the row
InsertRow(rec) ==
  [id |-> NInitRows + created + 1, title |-> rec.title, creator_id |-> user,
   channel_id |-> IF rec.isPublic THEN NoChannel ELSE rec.chan,
   is_public |-> rec.isPublic, likes |-> 0, views |-> 0,
   created_at |-> NInitRows + created + 1]

\* from('debriefings').insert(debriefingInsert).select().single(); if (error) throw error
CreateInsert(t) ==
  /\ tasks[t].pc = "insert"
  /\ \E ok \in BOOLEAN :
       LET rec == Answer(tasks[t], ok, "insert")
       IN /\ db' = IF ok THEN db \cup {InsertRow(rec)} ELSE db
          /\ created' = IF ok THEN created + 1 ELSE created
          /\ IF Thrown(rec)
             THEN Return(t, rec, "false", "error")
             ELSE Await(t, [rec EXCEPT !.pc = "finish",
                                       !.row = IF ok THEN InsertRow(rec) ELSE NoRow])
  /\ UNCHANGED <<user, channelId, debriefings, loading, likesTbl, calls, sheet>>

\* newDebriefing: { ...data, creator_username: profileData?.username || 'Vous', isLiked: false }
NewDebriefing(row, pok) == Item(row, IF pok THEN Username(user) ELSE "Vous", FALSE)

\* faulty variant: the new item is put at the end
Prepend_Append(new, prev) == prev \o <<new>>

\* setDebriefings(prev => [newDebriefing, ...prev])
Prepend(new, prev) == <<new>> \o prev

\* the profile lookup answers, the new item is put in the list, return true
CreateFinish(t) ==
  /\ tasks[t].pc = "finish"
  /\ \E pok \in BOOLEAN :
       debriefings' = Prepend(NewDebriefing(tasks[t].row, pok), debriefings)
  /\ Return(t, tasks[t], "true", "success")
  /\ UNCHANGED <<user, channelId, loading, db, likesTbl, created, calls, sheet>>

\* --------------------------------------------------------- likeDebriefing
\* positions of the items of the list with this id
Find(list, id) == {i \in DOMAIN list : list[i].id = id}

\* debriefings.find(d => d.id === debriefingId)
FindFirst(list, id) == list[CHOOSE i \in Find(list, id) : \A j \in Find(list, id) : i <= j]

\* history: when the step just taken completed a successful likeDebriefing(id), the like
\* state the item had before that call
Base(id) ==
  IF last.op = "like" /\ last.ret = "true" /\ last.task.arg = id /\ Find(last.pre.list, id) # {}
  THEN [liked |-> FindFirst(last.pre.list, id).isLiked, likes |-> FindFirst(last.pre.list, id).likes]
  ELSE NoBase

\* the likeDebriefing calls on this item that are in flight
LikesInFlight(id) == {s \in Slots : tasks[s].op = "like" /\ tasks[s].arg = id}

\* history: the item's isLiked agreed with the store (a like row of the viewer exists)
\* when the earliest of the likeDebriefing calls now in flight on it started, and no load
\* has replaced the list since
InSync(id) ==
  IF LikesInFlight(id) = {}
  THEN FindFirst(debriefings, id).isLiked = (<<id, user>> \in likesTbl)
  ELSE \A s \in LikesInFlight(id) : tasks[s].sync

\* likeDebriefing up to its first await
LikeDebriefing(t, id) ==
  /\ Lowest(t)
  /\ LET rec == [IdleTask EXCEPT !.op = "like", !.arg = id]
     IN IF AuthRequired THEN Return(t, rec, "false", "auth")
        ELSE IF Find(debriefings, id) = {} THEN Return(t, rec, "false", "none")
        ELSE Await(t, [rec EXCEPT !.pc = "likeCall",
                                  !.wasLiked = FindFirst(debriefings, id).isLiked,
                                  !.wasLikes = FindFirst(debriefings, id).likes,
                                  !.base = Base(id),
                                  !.sync = InSync(id)])
  /\ Call
  /\ UNCHANGED sheet
  /\ UNCHANGED <<user, channelId, debriefings, loading, db, likesTbl, created>>

\* debriefing_likes holds one row per (debriefing, user): a second insert is refused
CanInsertLike(id) == <<id, user>> \notin likesTbl

\* the delete or the insert on debriefing_likes answers: if (error) throw error
LikeCall(t) ==
  /\ tasks[t].pc = "likeCall"
  /\ \E ok \in BOOLEAN :
       LET done == ok /\ (tasks[t].wasLiked \/ CanInsertLike(tasks[t].arg))
           rec == Answer(tasks[t], done, IF tasks[t].wasLiked THEN "likeDelete" ELSE "likeInsert")
       IN /\ likesTbl' = IF ~done THEN likesTbl
                         ELSE IF rec.wasLiked THEN likesTbl \ {<<rec.arg, user>>}
                         ELSE likesTbl \cup {<<rec.arg, user>>}
          /\ IF Thrown(rec)
             THEN Return(t, rec, "false", "error")
             ELSE Await(t, [rec EXCEPT !.pc = "likeApply"])
  /\ UNCHANGED <<user, channelId, debriefings, loading, db, created, calls, sheet>>

\* faulty variant: the count goes up whatever the like state
Toggle_AlwaysUp(d) == [d EXCEPT !.isLiked = ~d.isLiked, !.likes = d.likes + 1]

\* { ...d, isLiked: !d.isLiked, likes: d.isLiked ? d.likes - 1 : d.likes + 1 }
Toggle(d) == [d EXCEPT !.isLiked = ~d.isLiked,
                       !.likes = IF d.isLiked THEN d.likes - 1 ELSE d.likes + 1]

\* prev.map(d => d.id === debriefingId ? toggled : d)
ToggleLike(prev, id) == [i \in DOMAIN prev |-> IF prev[i].id = id THEN Toggle(prev[i]) ELSE prev[i]]

\* setDebriefings(prev => prev.map(...)); return true
LikeApply(t) ==
  /\ tasks[t].pc = "likeApply"
  /\ debriefings' = ToggleLike(debriefings, tasks[t].arg)
  /\ Return(t, tasks[t], "true", "none")
  /\ UNCHANGED <<user, channelId, loading, db, likesTbl, created, calls, sheet>>

\* ------------------------------------------------------- deleteDebriefing
\* deleteDebriefing up to its first await
DeleteDebriefing(t, id) ==
  /\ Lowest(t)
  /\ LET rec == [IdleTask EXCEPT !.op = "delete", !.arg = id]
     IN IF AuthRequired THEN Return(t, rec, "false", "auth")
        ELSE Await(t, [rec EXCEPT !.pc = "delCall"])
  /\ Call
  /\ UNCHANGED sheet
  /\ UNCHANGED <<user, channelId, debriefings, loading, db, likesTbl, created>>

\* .delete().eq('id', debriefingId).eq('creator_id', user.id): the rows it removes
DeleteFilter(id) == {r \in db : r.id = id /\ r.creator_id = user}

\* the delete on debriefings answers: if (error) throw error.  The schema is not part of
\* the repository: the like rows of a removed row go with it (cascade) or stay.
DeleteCall(t) ==
  /\ tasks[t].pc = "delCall"
  /\ \E ok \in BOOLEAN, cascade \in BOOLEAN :
       LET rec == Answer(tasks[t], ok, "delete")
           gone == IF ok THEN DeleteFilter(rec.arg) ELSE {}
       IN /\ db' = db \ gone
          /\ likesTbl' = IF cascade THEN {l \in likesTbl : \A r \in gone : l[1] # r.id}
                         ELSE likesTbl
          /\ IF Thrown(rec)
             THEN Return(t, rec, "false", "error")
             ELSE Await(t, [rec EXCEPT !.pc = "delApply"])
  /\ UNCHANGED <<user, channelId, debriefings, loading, created, calls, sheet>>

\* prev.filter(d => d.id !== debriefingId)
RECURSIVE Remove(_, _)
Remove(prev, id) ==
  IF prev = <<>> THEN <<>>
  ELSE (IF Head(prev).id = id THEN <<>> ELSE <<Head(prev)>>) \o Remove(Tail(prev), id)

\* setDebriefings(prev => prev.filter(...)); toast.success; return true
DeleteApply(t) ==
  /\ tasks[t].pc = "delApply"
  /\ debriefings' = Remove(debriefings, tasks[t].arg)
  /\ Return(t, tasks[t], "true", "success")
  /\ UNCHANGED <<user, channelId, loading, db, likesTbl, created, calls, sheet>>

\* -------------------------------------------------- DebriefingCommentsSheet
\* what the user can have in the comment box
Texts == {"", " ", "hi"}
NoReply == "null"
\* the comments the user can reply to
ReplyTargets == {"k1"}

\* newComment.trim()
Trim(text) == IF text = " " THEN "" ELSE IF text = "@bob " THEN "@bob" ELSE text

\* useState(''), useState(null), useState(false); no addComment call made
SheetStart ==
  [newComment |-> "", replyTo |-> NoReply, isSubmitting |-> FALSE,
   inFlight |-> <<>>, submits |-> 0, added |-> 0]

\* the state of the hook, which the sheet does not touch
hookVars == <<channelId, debriefings, loading, tasks, last, db, likesTbl, created, calls>>

\* the comment input is rendered: {user && (...)}
InputShown == user # NoUser

\* onChange: setNewComment(e.target.value)
TypeComment(text) ==
  /\ InputShown
  /\ text # sheet.newComment
  /\ sheet' = [sheet EXCEPT !.newComment = text]
  /\ UNCHANGED <<user, hookVars>>

\* handleReply: setReplyTo({ id, username }); setNewComment(`@${username} `)
HandleReply(k) ==
  /\ sheet.replyTo # k \/ sheet.newComment # "@bob "
  /\ sheet' = [sheet EXCEPT !.replyTo = k, !.newComment = "@bob "]
  /\ UNCHANGED <<user, hookVars>>

\* the X of the reply banner: setReplyTo(null); setNewComment('')
CancelReply ==
  /\ InputShown
  /\ sheet.replyTo # NoReply
  /\ sheet' = [sheet EXCEPT !.replyTo = NoReply, !.newComment = ""]
  /\ UNCHANGED <<user, hookVars>>

\* if (!newComment.trim() || !user) return
SubmitRefused == Trim(sheet.newComment) = "" \/ user = NoUser

\* handleSubmitComment up to its await: setIsSubmitting(true); addComment(newComment, replyTo?.id)
HandleSubmitComment ==
  /\ sheet.submits < MaxSubmits
  /\ sheet' = IF SubmitRefused
              THEN [sheet EXCEPT !.submits = @ + 1]
              ELSE [sheet EXCEPT !.submits = @ + 1,
                                 !.isSubmitting = TRUE,
                                 !.inFlight = Append(@, [body |-> sheet.newComment,
                                                         parent |-> sheet.replyTo])]
  /\ UNCHANGED <<user, hookVars>>

\* Textarea onKeyDown: Enter without shift calls handleSubmitComment
PressEnter ==
  /\ InputShown
  /\ HandleSubmitComment

\* Button disabled={!newComment.trim() || isSubmitting}
SendDisabled == Trim(sheet.newComment) = "" \/ sheet.isSubmitting

\* Button onClick={handleSubmitComment}
ClickSend ==
  /\ InputShown
  /\ ~SendDisabled
  /\ HandleSubmitComment

\* what an addComment call can come to: true, false, or an exception
AddCommentOutcomes == {"true", "false", "throw"}

\* handleSubmitComment after its await: the addComment call at position i settles;
\* success clears the box and the reply target; finally setIsSubmitting(false)
SubmitSettles(i, outcome) ==
  /\ i \in DOMAIN sheet.inFlight
  /\ sheet' = [sheet EXCEPT
                 !.inFlight = SubSeq(@, 1, i - 1) \o SubSeq(@, i + 1, Len(@)),
                 !.newComment = IF outcome = "true" THEN "" ELSE @,
                 !.replyTo = IF outcome = "true" THEN NoReply ELSE @,
                 !.added = IF outcome = "true" THEN @ + 1 ELSE @,
                 !.isSubmitting = FALSE]
  /\ UNCHANGED <<user, hookVars>>

\* --------------------------------------------------------- specification
\* the ids the component can pass: those of the items shown, of the rows stored, and an unknown one
KnownIds == {debriefings[i].id : i \in DOMAIN debriefings} \cup {r.id : r \in db} \cup {UnknownId}

\* The hook after mount: the effect has run once for the initial channelId.
Init ==
  /\ user \in Viewers
  /\ channelId \in Channels
  /\ db = InitRows
  /\ likesTbl = InitLikes
  /\ created = 0
  /\ calls = 0
  /\ debriefings = <<>>
  /\ loading = ~IsSentinel(channelId)
  /\ last = NoCall
  /\ sheet = SheetStart
  /\ tasks = [t \in Slots |->
                IF t = 1 /\ ~IsSentinel(channelId)
                THEN [IdleTask EXCEPT !.op = "fetch", !.chan = channelId, !.pc = "query"]
                ELSE IdleTask]

Next ==
  \/ \E t \in Slots : Refetch(t)
  \/ \E t \in Slots, c \in Channels : SetChannel(t, c)
  \/ \E t \in Slots : FetchPublic(t)
  \/ \E t \in Slots : LoadQuery(t)
  \/ \E t \in Slots, i \in 1..(NInitRows + MaxCalls) : EnrichItem(t, i)
  \/ \E t \in Slots : LoadApply(t)
  \/ \E t \in Slots, title \in Titles, isPublic \in BOOLEAN, video \in BOOLEAN, thumb \in BOOLEAN :
       CreateDebriefing(t, title, isPublic, video, thumb)
  \/ \E t \in Slots, title \in Titles, video \in BOOLEAN, thumb \in BOOLEAN :
       CreatePublicBrief(t, title, video, thumb)
  \/ \E t \in Slots : Upload(t)
  \/ \E t \in Slots : CreateInsert(t)
  \/ \E t \in Slots : CreateFinish(t)
  \/ \E t \in Slots, id \in KnownIds : LikeDebriefing(t, id)
  \/ \E t \in Slots : LikeCall(t)
  \/ \E t \in Slots : LikeApply(t)
  \/ \E t \in Slots, id \in KnownIds : DeleteDebriefing(t, id)
  \/ \E t \in Slots : DeleteCall(t)
  \/ \E t \in Slots : DeleteApply(t)

Spec == Init /\ [][Next]_vars

\* Every store call of a load settles and the continuation after the await runs: the
\* promises of the store client resolve with { data, error }, and the event loop runs
\* every continuation that is ready.
LoadFairness ==
  \A t \in Slots :
    /\ WF_vars(LoadQuery(t))
    /\ WF_vars(\E i \in 1..(NInitRows + MaxCalls) : EnrichItem(t, i))
    /\ WF_vars(LoadApply(t))

FairSpec == Spec /\ LoadFairness

\* The comments sheet after mount, next to a hook that is left alone.
SheetInit ==
  /\ user \in Viewers
  /\ channelId = NoChannel
  /\ db = InitRows
  /\ likesTbl = InitLikes
  /\ created = 0
  /\ calls = 0
  /\ debriefings = <<>>
  /\ loading = FALSE
  /\ last = NoCall
  /\ tasks = [t \in Slots |-> IdleTask]
  /\ sheet = SheetStart

SheetNext ==
  \/ \E text \in Texts : TypeComment(text)
  \/ \E k \in ReplyTargets : HandleReply(k)
  \/ CancelReply
  \/ PressEnter
  \/ ClickSend
  \/ \E i \in 1..MaxSubmits, outcome \in AddCommentOutcomes : SubmitSettles(i, outcome)

SheetSpec == SheetInit /\ [][SheetNext]_vars

\* ------------------------------------------------------------ properties
Mutations == {"create", "createPublic", "like", "delete"}
Loads == {"fetch", "fetchPublic"}
NoScope == {NoChannel, Sentinel}

\* the step just taken left the list and the store as they were
Untouched == debriefings = last.pre.list /\ db = last.pre.db /\ likesTbl = last.pre.likes

\* the list is ordered by created_at, newest first
NewestFirst(list) == \A i, j \in DOMAIN list : i < j => list[i].created_at >= list[j].created_at

\* C1: without a viewer, createDebriefing, createPublicBrief, likeDebriefing and
\* deleteDebriefing return false before any await (so without any store or blob-store
\* call), leave the list and the store as they were, and no such call is ever in flight.
C1_Unauthenticated ==
  user = NoUser =>
    /\ \A t \in Slots : tasks[t].op \notin Mutations
    /\ last.op \in Mutations => (last.ret = "false" /\ last.at = "idle" /\ Untouched)

C1_Witness ==
  user = NoUser /\ last.op = "delete" /\ last.ret = "false" /\ debriefings # <<>>

\* C2: a deleteDebriefing(id) of an item the viewer did not create (the creator filter
\* matches no row) returns false and leaves the list as it was.
C2_NonOwnerDelete ==
  (/\ last.op = "delete"
   /\ user # NoUser
   /\ \E i \in Find(last.pre.list, last.task.arg) : last.pre.list[i].creator_id # user)
  => (last.ret = "false" /\ debriefings = last.pre.list)

\* C3: a successful likeDebriefing(x) flips isLiked of item x and moves its likes by +1
\* (it was not liked) or -1 (it was liked); when the call started right after another
\* successful likeDebriefing(x) returned, and the item is still as the call found it, the
\* item is back to the isLiked and likes it had before that first call.
C3_LikeToggle ==
  (last.op = "like" /\ last.ret = "true" /\ Find(last.pre.list, last.task.arg) # {}) =>
    LET i == CHOOSE k \in Find(last.pre.list, last.task.arg) :
               \A j \in Find(last.pre.list, last.task.arg) : k <= j
        before == last.pre.list[i]
        after == debriefings[i]
    IN /\ after.isLiked = ~before.isLiked
       /\ after.likes = IF before.isLiked THEN before.likes - 1 ELSE before.likes + 1
       /\ (/\ last.task.base # NoBase
           /\ before.isLiked = last.task.wasLiked
           /\ before.likes = last.task.wasLikes)
          => (after.isLiked = last.task.base.liked /\ after.likes = last.task.base.likes)

C3_Witness ==
  /\ last.op = "like" /\ last.ret = "true" /\ last.task.arg = 1
  /\ last.task.base = [liked |-> FALSE, likes |-> 3]
  /\ \E i \in DOMAIN debriefings :
       /\ debriefings[i].id = 1 /\ debriefings[i].likes = 3 /\ ~debriefings[i].isLiked
       /\ last.pre.list[i].likes = 4 /\ last.pre.list[i].isLiked

\* C4: the result of a fetchDebriefings whose channel is no longer the hook's channel is
\* still applied: it replaces the list.
C4_StaleLoadApplied ==
  (last.op = "fetch" /\ last.at = "enrich" /\ last.task.chan # channelId)
  => debriefings = last.task.out

C4_Witness ==
  /\ last.op = "fetch" /\ last.at = "enrich" /\ last.task.chan # channelId
  /\ debriefings # <<>>
  /\ \A i \in DOMAIN debriefings : debriefings[i].channel_id = last.task.chan

\* C5 as stated: a load one of whose enrichment lookups failed is aborted: the list is not
\* replaced and a failure is reported.
C5_EnrichFailureAborts ==
  (last.op \in Loads /\ last.task.pFail \cup last.task.lFail # {})
  => (last.toast = "error" /\ debriefings = last.pre.list)

\* C5 amended: a failed enrichment lookup does not abort the load: the list is replaced by
\* one item per row of the query, in the order of the query, the item of a failed profile
\* lookup named 'Utilisateur' and the item of a failed like lookup not liked; loading is
\* cleared and no failure is reported.
C5_EnrichFailureTolerated ==
  (last.op \in Loads /\ last.at = "enrich") =>
    /\ last.toast = "none" /\ ~loading
    /\ DOMAIN debriefings = DOMAIN last.task.rows
    /\ \A i \in DOMAIN debriefings :
         /\ debriefings[i].id = last.task.rows[i].id
         /\ i \in last.task.pFail => debriefings[i].creator_username = "Utilisateur"
         /\ i \notin last.task.pFail => debriefings[i].creator_username # "Utilisateur"
         /\ i \in last.task.lFail => ~debriefings[i].isLiked

C5_Witness ==
  /\ last.op \in Loads /\ last.at = "enrich"
  /\ last.task.pFail # {} /\ last.task.lFail # {} /\ last.task.pFail # last.task.lFail
  /\ Len(debriefings) = 2

\* C6: a load with no channel or with the channel 'general', by fetchDebriefings or by the
\* effect, ends at once with an empty list and loading false, and issues no store call: it
\* returns before any await and no fetchDebriefings for such a channel is ever in flight.
C6_SentinelLoad ==
  /\ \A t \in Slots : tasks[t].op = "fetch" => tasks[t].chan \notin NoScope
  /\ (last.op \in {"fetch", "effect"} /\ last.task.chan \in NoScope) =>
       /\ debriefings = <<>> /\ ~loading
       /\ last.at = "idle" /\ db = last.pre.db /\ likesTbl = last.pre.likes

C6_Witness ==
  /\ last.op = "fetch" /\ last.task.chan = NoChannel
  /\ last.pre.list # <<>> /\ debriefings = <<>> /\ ~loading

\* C7: createDebriefing of a viewer, not public, on a hook with no channel or the channel
\* 'general' returns false before any await (no upload, no insert), leaves the list and
\* the store as they were, and no such call is ever in flight.
C7_InvalidScope ==
  /\ \A t \in Slots :
       (tasks[t].op = "create" /\ ~tasks[t].isPublic) => tasks[t].chan \notin NoScope
  /\ (last.op = "create" /\ user # NoUser /\ ~last.task.isPublic /\ last.task.chan \in NoScope)
     => (last.ret = "false" /\ last.at = "idle" /\ Untouched)

C7_Witness ==
  /\ last.op = "create" /\ user # NoUser /\ ~last.task.isPublic /\ last.task.chan = Sentinel
  /\ last.ret = "false" /\ last.task.video /\ debriefings # <<>>

\* C8: createPublicBrief({title: T}) of a viewer on a hook with no channel returns false
\* only when a store call failed; when it returns true the list is the new item (title T,
\* channel null, public, likes 0, not liked) followed by the list as it was.
C8_CreatePublicBrief ==
  (last.op = "createPublic" /\ user # NoUser /\ last.task.chan = NoChannel) =>
    /\ last.ret = "false" => last.task.err # "none"
    /\ last.ret = "true" =>
         /\ Len(debriefings) = Len(last.pre.list) + 1
         /\ debriefings[1].id = last.task.row.id
         /\ debriefings[1].title = last.task.title
         /\ debriefings[1].channel_id = NoChannel
         /\ debriefings[1].is_public
         /\ debriefings[1].likes = 0
         /\ ~debriefings[1].isLiked
         /\ Tail(debriefings) = last.pre.list

C8_Witness ==
  /\ last.op = "createPublic" /\ last.ret = "true" /\ last.task.chan = NoChannel
  /\ last.pre.list # <<>> /\ debriefings[1].title = "T" /\ debriefings[2].title = "B"

\* C9: whenever no call is in flight the list is ordered by created_at, newest first.
C9_NewestFirst == (\A t \in Slots : Free(t)) => NewestFirst(debriefings)

\* what a returning createDebriefing, likeDebriefing or deleteDebriefing shows when one
\* of its store calls returned an error
C10_AtReturn ==
  /\ \A t \in Slots : tasks[t].op \in Mutations => tasks[t].err = "none"
  /\ last.op \in Mutations => last.ret \in {"true", "false"}
  /\ (last.op \in Mutations /\ last.task.err # "none") =>
       /\ last.ret = "false" /\ last.toast = "error" /\ Untouched
       /\ last.task.err \in {"video", "thumb", "insert"} => last.task.row = NoRow

\* a step of createDebriefing, likeDebriefing or deleteDebriefing other than a return of
\* true leaves the list as it was
C10_Step ==
  (/\ last'.ret # "true"
   /\ \/ last'.op \in Mutations
      \/ \E t \in Slots : tasks'[t].pc # tasks[t].pc /\ tasks'[t].op \in Mutations)
  => debriefings' = debriefings

\* C10: when a store or blob-store call of createDebriefing, likeDebriefing or
\* deleteDebriefing returns an error, the call goes no further (no call with an error is in
\* flight: a failed upload prevents the insert), it returns false with the error toast
\* and does not throw, the list and the store are as they were, and no earlier step of the
\* call had changed the list.
C10_StoreFailure == []C10_AtReturn /\ [][C10_Step]_vars

C10_Witness ==
  /\ last.op = "create" /\ last.task.err = "thumb" /\ last.task.video
  /\ last.ret = "false" /\ debriefings # <<>>

\* what a returning fetchDebriefings or fetchPublicDebriefings leaves: loading false, and
\* after a failed main query the list as it was and the error toast
C11_AtReturn ==
  last.op \in Loads =>
    /\ ~loading
    /\ last.task.err # "none" => (last.toast = "error" /\ debriefings = last.pre.list)

\* C11: every fetchDebriefings and fetchPublicDebriefings call returns, and when it
\* returns (short-circuited by the sentinel, after a failed query or after the list was
\* replaced) loading is false; when the main query returned an error the list is as it
\* was and the error toast is shown.
C11_LoadingCleared ==
  /\ []C11_AtReturn
  /\ \A t \in Slots : (tasks[t].op \in Loads) ~> Free(t)

C11_Witness ==
  /\ last.op = "fetchPublic" /\ last.task.err = "query" /\ last.toast = "error"
  /\ last.pre.loading /\ ~loading /\ debriefings # <<>>

\* the visibility rule of a row: public if and only if it has no channel, and never the
\* sentinel as channel
Visible(r) == (r.is_public <=> r.channel_id = NoChannel) /\ r.channel_id # Sentinel

\* C12 as stated: when createDebriefing inserts a row that is not public, the row's
\* channel is the channel the hook has at that moment.
C12_CurrentChannel ==
  [][\A t \in Slots :
       (tasks[t].pc = "insert" /\ tasks'[t].pc = "finish" /\ ~tasks'[t].row.is_public)
       => tasks'[t].row.channel_id = channelId]_vars

\* C12 amended: every row inserted by createDebriefing or createPublicBrief is public if
\* and only if its channel is null, has likes 0 and views 0, and a row that is not public
\* has the channel the hook had when the call was made (which the hook may have left
\* since), neither absent nor 'general'.
C12_InsertedRows ==
  /\ \A r \in db \ InitRows : Visible(r) /\ r.likes = 0 /\ r.views = 0
  /\ \A t \in Slots : tasks[t].pc = "finish" =>
       LET r == tasks[t].row
       IN /\ r.is_public = tasks[t].isPublic
          /\ r.creator_id = user
          /\ Visible(r) /\ r.likes = 0 /\ r.views = 0
          /\ ~r.is_public => (r.channel_id = tasks[t].chan /\ tasks[t].chan \notin NoScope)

C12_Witness ==
  \E t \in Slots :
    /\ tasks[t].pc = "finish" /\ tasks[t].row \in db
    /\ ~tasks[t].row.is_public /\ tasks[t].row.channel_id = "c1" /\ channelId = "c2"

\* C13: when a likeDebriefing call returns and no other likeDebriefing call on the item is
\* in flight, the item's isLiked says whether the store holds a like row of the viewer for
\* it, provided it did so when the earliest of the overlapping calls started, no load has
\* replaced the list since and the item's row is still in the store.
C13_LikeMirrorsStore ==
  (/\ last.op = "like" /\ last.at # "idle" /\ last.task.sync
   /\ LikesInFlight(last.task.arg) = {}
   /\ \E r \in db : r.id = last.task.arg
   /\ Find(debriefings, last.task.arg) # {})
  => (FindFirst(debriefings, last.task.arg).isLiked = (<<last.task.arg, user>> \in likesTbl))

\* C14: the list never holds two items with the same id.
C14_NoDuplicateIds ==
  \A i, j \in DOMAIN debriefings : debriefings[i].id = debriefings[j].id => i = j

\* every item of the list has this channel
AllIn(list, c) == \A i \in DOMAIN list : list[i].channel_id = c

\* the call was made on the hook's channel as it is now
OnChannel(rec) == rec.op \in {"like", "delete"} \/ rec.chan = channelId

\* a step that keeps the hook on its valid channel, starts from a list of that channel,
\* and in which the call that returns (if one does) is one of ops, made on that channel
SameScopeStep(ops) ==
  /\ channelId' = channelId /\ ~IsSentinel(channelId)
  /\ AllIn(debriefings, channelId)
  /\ last' # NoCall => (last'.op \in ops /\ OnChannel(last'.task))

\* C15 as stated: on a hook that stays on a valid channel C, no step of refetch,
\* createDebriefing, createPublicBrief, fetchPublicDebriefings, likeDebriefing or
\* deleteDebriefing puts an item of another channel in a list of items of C.
C15_AnyCall ==
  [][SameScopeStep({"fetch", "fetchPublic", "create", "createPublic", "like", "delete"})
     => AllIn(debriefings', channelId)]_vars

\* C15 amended: on a hook that stays on a valid channel C, no step of refetch, of a
\* createDebriefing that is not public, of likeDebriefing or of deleteDebriefing puts an
\* item of another channel in a list of items of C; starting from the empty list, the list
\* holds only items of C as long as no createPublicBrief, public createDebriefing or
\* fetchPublicDebriefings is called.
C15_ChannelCalls ==
  [][(/\ SameScopeStep({"fetch", "create", "like", "delete"})
      /\ last'.op = "create" => ~last'.task.isPublic)
     => AllIn(debriefings', channelId)]_vars

C15_Witness ==
  /\ channelId = "c1" /\ last.op = "create" /\ last.ret = "true" /\ ~last.task.isPublic
  /\ last.task.chan = "c1" /\ Len(debriefings) = 2 /\ AllIn(debriefings, "c1")
  /\ AllIn(last.pre.list, "c1")

\* C16: at most one addComment call of the comments sheet is in flight at any time.
C16_OneSubmission == Len(sheet.inFlight) <= 1
====
